---- MODULE Spec2Model ----
(***************************************************************************)
(* The double-pendulum task environment (DoublePendulumEnv): observation,  *)
(* stability counter, termination flags, reset and torque routing.         *)
(*                                                                         *)
(* Reals are fixed point with three decimals: 1.0 is FixedOne, angles are  *)
(* in milliradians, velocities in milliradians per second.  Joint 1 is the *)
(* shoulder (Joint1), joint 2 the elbow (Joint2).                          *)
(***************************************************************************)
EXTENDS Integers, Sequences, FiniteSets

\* ---------------------------------------------------------------- bounds
\* number of parallel environment rows (scene.num_envs, 4096 in the cfg)
NumEnvs == 2
\* max_episode_length in steps (900 = 15 s / (2 * 1/120 s) in the cfg)
MaxEpisodeLength == 5
\* cfg.sustain_steps (10 in the cfg), scaled down with the episode length
sustain_steps == 2
\* angles fed to normalize_angle: quarter turns either side of zero
MaxQuarterTurns == 12
\* joint velocities fed to the observation: multiples of the maximum velocity
MaxSpans == 3
\* play_grid: number of names an entry of BASE_DIR may have
MaxEntries == 3
\* test: largest max_steps (1800 = int(15.0 / (1 / 120)) with the cfg)
MaxSteps == 6

\* ------------------------------------------------------------- constants
\* 1.0 in fixed point (the clamp bounds of the observation velocities)
FixedOne == 1000
\* math.pi in fixed point
Pi == 3142
\* cfg.success_threshold = 0.1
success_threshold == 100
\* cfg.max_velocity = 5.0
max_velocity == 5000
\* cfg.torque_scale = 10.0
torque_scale == 10
\* 1.0 in tenths, the unit of the reward weights and of the reward scale
TenthsOne == 10
\* cfg.reward_state_weights = [1.0, 2.0, 0.1, 0.1], in tenths
reward_state_weights == <<10, 20, 1, 1>>
\* cfg.reward_action_weight = 0.1, in tenths
reward_action_weight == 1
\* cfg.reward_scale = 1.0, in tenths
reward_scale == 10
\* cfg.time_penalty = 0.01
time_penalty == 10
\* cfg.bonus_reward = 20.0
bonus_reward == 20000
\* the factor 0.01 of the angle shaping
angle_shaping_scale == 10
\* terms of the continued fraction that stands for torch.tanh
TanhTerms == 8
\* physics steps in a second: sim.dt = 1 / 120
PhysicsStepsPerSecond == 120
\* 1.0 in ten-thousandths, the unit of the printed time to goal (:.4f)
TenThousandths == 10000
\* cfg.initial_shoulder_angle_range and cfg.initial_elbow_angle_range
initial_shoulder_angle_range == <<-1, 1>>
initial_elbow_angle_range == <<-1, 1>>
\* cfg.goal_state as written in the cfg: [-pi, 0, 0, 0]
DefaultGoalState == <<-Pi, 0, 0, 0>>
\* cfg.robot_type as written in the cfg
DefaultRobotType == "acrobot"
RobotTypes == {"acrobot", "pendubot", "double_pendulum"}

Rows == 0 .. (NumEnvs - 1)
Joints == {1, 2}
\* joint indices found by find_joints for Joint1 and Joint2
shoulder_dof_idx == 1
elbow_dof_idx == 2

VARIABLES
  pc,                  \* position in the caller's sequence of calls
  robot_type,          \* cfg.robot_type of the constructed environment
  goal_state,          \* cfg.goal_state of the constructed environment
  action_spaces,       \* cfg.action_spaces["pendulum"]
  joint_pos,           \* self.joint_pos (robot.data.joint_pos), row -> <<shoulder, elbow>>
  joint_vel,           \* self.joint_vel (robot.data.joint_vel)
  default_joint_pos,   \* robot.data.default_joint_pos
  default_joint_vel,   \* robot.data.default_joint_vel
  stable_count,        \* self._stable_count
  episode_length_buf,  \* the framework's per-row step counter
  dones,               \* first dict returned by the last _get_dones
  time_outs,           \* second dict returned by the last _get_dones
  success,             \* local `success` of the last _get_dones
  sustained,           \* local `sustained_stability` of the last _get_dones
  stable_condition,    \* local `stable_condition` of the last _get_rewards
  env_ids,             \* argument of the _reset_idx call that has just returned
  actions,             \* self.actions["pendulum"], row -> sequence of width k
  effort_target,       \* robot.data.joint_effort_target, row -> <<shoulder, elbow>>
  failed,              \* an exception has ended the process
  angle_in,            \* argument of normalize_angle
  angle_out,           \* result of normalize_angle
  angle_twice,         \* result of normalize_angle applied to its own result
  reward,              \* rewards _get_rewards returned to the step in progress, in
                       \* millionths (zero between steps)
  vel_in,              \* joint velocities given to _get_observations, <<shoulder, elbow>>
  max_vel_in,          \* cfg.max_velocity of that call
  vel_out,             \* the two velocity components of the observation returned
  driver_i,            \* grid_search_driver: loop index i of main
  driver_launched,     \* grid_search_driver: weights of the subprocesses started, in order
  driver_alive,        \* grid_search_driver: indices of the subprocesses now alive
  driver_exits,        \* grid_search_driver: exit statuses of the subprocesses, in order
  driver_printed,      \* grid_search_driver: "All grid runs completed!" is on stdout
  grid_argv_run_name,  \* grid_search: --run_name as given on the command line
  grid_run_name,       \* grid_search: args_cli.run_name
  grid_old_run_name,   \* grid_search: local old_run_name of main's loop
  grid_i,              \* grid_search: loop index i of main
  grid_env_cfg,        \* grid_search: main's env_cfg
  grid_agent_cfg,      \* grid_search: main's agent_cfg
  grid_local_env_cfg,  \* grid_search: local_env_cfg of the iteration
  grid_local_agent_cfg,\* grid_search: local_agent_cfg of the iteration
  grid_runs,           \* grid_search: what each run_single_training call was given
  play_entries,        \* play_grid: the entries of BASE_DIR, name -> what the entry is
  play_todo,           \* play_grid: names the loop of main has still to visit, in order
  play_results,        \* play_grid: the list `results`
  play_launched,       \* play_grid: names subprocess.run was called for
  play_csv,            \* play_grid: rows of the CSV file (none before it is written)
  eval_max_steps,      \* test: max_steps
  eval_step_count,     \* test: step_count
  eval_goal_reached,   \* test: goal_reached
  eval_last,           \* test: what the last env.step returned
  eval_printed         \* test: the result lines printed

envVars == <<joint_pos, joint_vel, default_joint_pos, default_joint_vel,
             stable_count, episode_length_buf>>
doneVars == <<dones, time_outs, success, sustained>>
cfgVars == <<robot_type, goal_state, action_spaces>>
actVars == <<actions, effort_target>>
normVars == <<angle_in, angle_out, angle_twice>>
obsVars == <<vel_in, max_vel_in, vel_out>>
driverVars == <<driver_i, driver_launched, driver_alive, driver_exits, driver_printed>>
gridVars == <<grid_argv_run_name, grid_run_name, grid_old_run_name, grid_i, grid_env_cfg,
             grid_agent_cfg, grid_local_env_cfg, grid_local_agent_cfg, grid_runs>>
playVars == <<play_entries, play_todo, play_results, play_launched, play_csv>>
evalVars == <<eval_max_steps, eval_step_count, eval_goal_reached, eval_last, eval_printed>>
scriptVars == <<driverVars, gridVars, playVars, evalVars>>
toolVars == <<obsVars, scriptVars>>
\* everything of the environment: what a script that holds none leaves alone
envAll == <<cfgVars, envVars, doneVars, stable_condition, env_ids, actVars, failed,
            normVars, reward, obsVars>>
vars == <<pc, cfgVars, envVars, doneVars, stable_condition, env_ids, actVars,
          failed, normVars, reward, toolVars>>

\* ------------------------------------------------------- pure functions
\* with a remainder that truncates toward zero (C's fmod) instead of flooring
normalize_angle_fmod(angle) ==
  LET a == angle + Pi
  IN (IF a >= 0 THEN a % (2 * Pi) ELSE -((-a) % (2 * Pi))) - Pi

\* without the shift by pi before the remainder
normalize_angle_unshifted(angle) == (angle % (2 * Pi)) - Pi

\* (angle + pi) % (2 pi) - pi; torch's % on a tensor is remainder(), whose
\* result has the sign of the divisor, as TLA+'s % has
normalize_angle(angle) == ((angle + Pi) % (2 * Pi)) - Pi

ClampAbove(x) == IF x > FixedOne THEN FixedOne ELSE x

\* torch.clamp(x, -1.0, 1.0)
Clamp(x) == IF x < -FixedOne THEN -FixedOne ELSE IF x > FixedOne THEN FixedOne ELSE x

\* joint velocity / max velocity
ScaledVelBy(v, mv) == (v * FixedOne) \div mv

\* joint velocity / cfg.max_velocity
ScaledVel(v) == ScaledVelBy(v, max_velocity)

\* one row of _get_observations
Observation(pos, vel) ==
  << normalize_angle(pos[shoulder_dof_idx]), normalize_angle(pos[elbow_dof_idx]),
     Clamp(ScaledVel(vel[shoulder_dof_idx])), Clamp(ScaledVel(vel[elbow_dof_idx])) >>

\* goal_tensor of _get_rewards: its two angles are normalized
RewardGoal(goal) == << normalize_angle(goal[1]), normalize_angle(goal[2]), goal[3], goal[4] >>

\* goal of _get_dones: the configured goal as it is
DonesGoal(goal) == goal

\* squared Euclidean norm of state - goal (torch.norm(..., dim=-1), squared)
ErrorNormSq(state, goal) ==
  (state[1] - goal[1]) * (state[1] - goal[1]) + (state[2] - goal[2]) * (state[2] - goal[2])
  + (state[3] - goal[3]) * (state[3] - goal[3]) + (state[4] - goal[4]) * (state[4] - goal[4])

\* error_norm < cfg.success_threshold (both sides are non-negative)
BelowThreshold(state, goal) ==
  ErrorNormSq(state, goal) < success_threshold * success_threshold

Abs(x) == IF x < 0 THEN -x ELSE x

\* the denominator of tanh x = x / (1 + x^2 / (3 + x^2 / (5 + ...))), from
\* its n-th term on, for x2 = x^2
RECURSIVE TanhDenominator(_, _)
TanhDenominator(x2, n) ==
  IF n >= TanhTerms THEN (2 * n + 1) * FixedOne
  ELSE (2 * n + 1) * FixedOne + (x2 * FixedOne) \div TanhDenominator(x2, n + 1)

\* torch.tanh(x) for x >= 0, to within a thousandth
Tanh(x) == (x * FixedOne) \div TanhDenominator((x * x) \div FixedOne, 0)

\* error = state - goal_tensor
Error(state, goal) == [k \in 1 .. 4 |-> state[k] - goal[k]]

\* state_cost = error^T Q error with Q = diag(reward_state_weights), in millionths
StateCost(error) ==
  ( reward_state_weights[1] * error[1] * error[1] + reward_state_weights[2] * error[2] * error[2]
    + reward_state_weights[3] * error[3] * error[3]
    + reward_state_weights[4] * error[4] * error[4] ) \div TenthsOne

\* torch.sum(action**2, dim=-1) of one row
RECURSIVE SumOfSquares(_)
SumOfSquares(action) ==
  IF action = <<>> THEN 0 ELSE Head(action) * Head(action) + SumOfSquares(Tail(action))

\* action_cost = reward_action_weight * sum(action**2), in millionths
ActionCost(action) ==
  reward_action_weight * SumOfSquares(action) * ((FixedOne * FixedOne) \div TenthsOne)

\* base_reward = -(reward_scale * total_cost) - time_penalty, in millionths
BaseReward(error, action) ==
  -((reward_scale * (StateCost(error) + ActionCost(action))) \div TenthsOne)
  - time_penalty * FixedOne

BonusAtThreshold(state, goal) ==
  IF ErrorNormSq(state, goal) <= success_threshold * success_threshold
  THEN bonus_reward * FixedOne ELSE 0

\* bonus = where(norm(state - goal_tensor) < success_threshold, bonus_reward, 0)
Bonus(state, goal) == IF BelowThreshold(state, goal) THEN bonus_reward * FixedOne ELSE 0

\* (1 - tanh|error[:2]|).sum() * 0.01, in millionths
AngleShaping(error) ==
  ((FixedOne - Tanh(Abs(error[1]))) + (FixedOne - Tanh(Abs(error[2])))) * angle_shaping_scale

\* reward of one row: base_reward + angle shaping + bonus
Reward(state, goal, action) ==
  BaseReward(Error(state, goal), action) + AngleShaping(Error(state, goal))
  + Bonus(state, goal)

\* ------------------------------------------------------------ get_dones
\* time_out = episode_length_buf >= max_episode_length - 1
TimeOut(i) == episode_length_buf[i] >= MaxEpisodeLength - 1

\* success = error_norm < success_threshold, against the goal as configured
Success(i) == BelowThreshold(Observation(joint_pos[i], joint_vel[i]), DonesGoal(goal_state))

SustainedOffByOne(i) == stable_count[i] >= sustain_steps - 1

\* sustained_stability = self._stable_count >= cfg.sustain_steps
Sustained(i) == stable_count[i] >= sustain_steps

DoneFlagEarly(i) == TimeOut(i) \/ Sustained(i)

\* dones = {"pendulum": time_out}
DoneFlag(i) == TimeOut(i)

GetDones ==
  /\ pc = "dones"
  /\ ~failed
  /\ success' = [i \in Rows |-> Success(i)]
  /\ sustained' = [i \in Rows |-> Sustained(i)]
  /\ dones' = [i \in Rows |-> DoneFlag(i)]
  /\ time_outs' = [i \in Rows |-> TimeOut(i)]
  /\ pc' = "rewards"
  /\ UNCHANGED <<cfgVars, envVars, stable_condition, env_ids, actVars, failed, normVars, reward, toolVars>>

\* ---------------------------------------------------------- get_rewards
\* stable_condition = error_norm < success_threshold, against the normalized goal
StableCondition(i) ==
  BelowThreshold(Observation(joint_pos[i], joint_vel[i]), RewardGoal(goal_state))

StableCountUpdateAll(cond, count) ==
  [i \in Rows |-> IF \A j \in Rows : cond[j] THEN count[i] + 1 ELSE 0]

\* torch.where(stable_condition, self._stable_count + 1, zeros_like(...))
StableCountUpdate(cond, count) ==
  [i \in Rows |-> IF cond[i] THEN count[i] + 1 ELSE 0]

GetRewards ==
  /\ pc = "rewards"
  /\ ~failed
  /\ stable_condition' = [i \in Rows |-> StableCondition(i)]
  /\ stable_count' = StableCountUpdate(stable_condition', stable_count)
  /\ reward' = [i \in Rows |-> Reward(Observation(joint_pos[i], joint_vel[i]),
                                       RewardGoal(goal_state), actions[i])]
  /\ pc' = "reset"
  /\ UNCHANGED <<cfgVars, joint_pos, joint_vel, default_joint_pos, default_joint_vel,
                 episode_length_buf, doneVars, env_ids, actVars, failed, normVars,
                 toolVars>>

\* ------------------------------------------------------------ reset_idx
\* values sample_uniform(lo * pi, hi * pi) draws from [lo*pi, hi*pi): both ends
SampleValues(range) == {range[1] * Pi, range[2] * Pi - 1}

\* one <<shoulder offset, elbow offset>> for each of `rows`
SampleOffsets(rows) ==
  [rows -> SampleValues(initial_shoulder_angle_range) \X SampleValues(initial_elbow_angle_range)]

\* an index tensor of torch raises IndexError outside [-N, N)
IndexError(ids) == \E x \in ids : x >= NumEnvs \/ x < -NumEnvs

\* torch counts a negative index from the end
RowOf(x) == IF x < 0 THEN x + NumEnvs ELSE x

RowsOf(ids) == {RowOf(x) : x \in ids}

DefaultJointPosInPlace(rows, off, djp) ==
  [i \in Rows |-> IF i \in rows THEN <<djp[i][1] + off[i][1], djp[i][2] + off[i][2]>>
                  ELSE djp[i]]

\* default_joint_pos[env_ids] is a copy: the += of the samples leaves the defaults
DefaultJointPosAfterReset(rows, off, djp) == djp

\* joint_pos = default_joint_pos[env_ids] + samples; self.joint_pos[env_ids] = joint_pos
ResetJointPos(rows, off, djp, jp) ==
  [i \in Rows |-> IF i \in rows THEN <<djp[i][1] + off[i][1], djp[i][2] + off[i][2]>>
                  ELSE jp[i]]

\* self.joint_vel[env_ids] = default_joint_vel[env_ids]
ResetJointVel(rows, djv, jv) == [i \in Rows |-> IF i \in rows THEN djv[i] ELSE jv[i]]

ResetStableCountAll(rows, count) == [i \in Rows |-> 0]

ResetStableCountNone(rows, count) == count

\* self._stable_count[env_ids] = 0
ResetStableCount(rows, count) == [i \in Rows |-> IF i \in rows THEN 0 ELSE count[i]]

\* super()._reset_idx(env_ids): the framework zeroes episode_length_buf[env_ids]
ResetEpisodeLength(rows, buf) == [i \in Rows |-> IF i \in rows THEN 0 ELSE buf[i]]

\* _reset_idx(ids) with samples off.  The framework calls it makes (super's
\* _reset_idx first, the writes to the simulation after the joint state is
\* stored) are given a negative index too: `rejects` is where one of them
\* raises, "none" when none does.
ResetIdx(ids, off, rejects) ==
  IF IndexError(ids) \/ rejects = "super"
  THEN /\ failed' = TRUE
       /\ UNCHANGED envVars
  ELSE LET rows == RowsOf(ids) IN
       /\ episode_length_buf' = ResetEpisodeLength(rows, episode_length_buf)
       /\ joint_pos' = ResetJointPos(rows, off, default_joint_pos, joint_pos)
       /\ joint_vel' = ResetJointVel(rows, default_joint_vel, joint_vel)
       /\ default_joint_pos' = DefaultJointPosAfterReset(rows, off, default_joint_pos)
       /\ UNCHANGED default_joint_vel
       /\ IF rejects = "write"
          THEN failed' = TRUE /\ UNCHANGED stable_count
          ELSE failed' = FALSE /\ stable_count' = ResetStableCount(rows, stable_count)

\* where a framework call may raise: nowhere when every index is in [0, N)
Rejections(ids) == IF \E x \in ids : x < 0 THEN {"none", "super", "write"} ELSE {"none"}

\* ------------------------------------------------- the framework's step
\* joint states the simulation may leave a row in: at the goal, at the goal
\* by a full turn, within the threshold by velocity, on the threshold, and
\* hanging down
JointStates ==
  { [pos |-> <<-Pi, 0>>, vel |-> <<0, 0>>],
    [pos |-> <<Pi, 0>>, vel |-> <<0, 0>>],
    [pos |-> <<-Pi, 0>>, vel |-> <<250, 250>>],
    [pos |-> <<-Pi, 0>>, vel |-> <<500, 0>>],
    [pos |-> <<0, 0>>, vel |-> <<0, 0>>] }

\* env.reset(): the framework resets every row before the first step
EnvReset ==
  /\ pc = "start"
  /\ ~failed
  /\ \E off \in SampleOffsets(Rows) : ResetIdx(Rows, off, "none")
  /\ env_ids' = Rows
  /\ pc' = "sim"
  /\ UNCHANGED <<cfgVars, doneVars, stable_condition, actVars, normVars, reward, toolVars>>

\* the physics steps of one env.step(), then episode_length_buf += 1
Sim ==
  /\ pc = "sim"
  /\ ~failed
  /\ \E js \in [Rows -> JointStates] :
       /\ joint_pos' = [i \in Rows |-> js[i].pos]
       /\ joint_vel' = [i \in Rows |-> js[i].vel]
  /\ episode_length_buf' = [i \in Rows |-> episode_length_buf[i] + 1]
  /\ env_ids' = {}
  /\ pc' = "dones"
  /\ UNCHANGED <<cfgVars, default_joint_pos, default_joint_vel, stable_count, doneVars,
                 stable_condition, actVars, failed, normVars, reward, toolVars>>

\* rows the framework resets at the end of a step: those reported done
DoneRows == {i \in Rows : dones[i]}

\* reset_env_ids = done rows; _reset_idx(reset_env_ids) when there are any
StepReset ==
  /\ pc = "reset"
  /\ ~failed
  /\ \/ /\ DoneRows # {}
        /\ \E off \in SampleOffsets(DoneRows) : ResetIdx(DoneRows, off, "none")
        /\ env_ids' = DoneRows
     \/ /\ DoneRows = {}
        /\ UNCHANGED <<envVars, env_ids, failed>>
  /\ reward' = [i \in Rows |-> 0]
  /\ pc' = "sim"
  /\ UNCHANGED <<cfgVars, doneVars, stable_condition, actVars, normVars, toolVars>>

\* init_state of DOUBLE_PENDULUM_CFG: both joints at 0.0, at rest
InitStateJointPos == <<0, 0>>
InitStateJointVel == <<0, 0>>

\* state after construction: joints at their defaults, counters at zero
Constructed ==
  /\ default_joint_pos = [i \in Rows |-> InitStateJointPos]
  /\ default_joint_vel = [i \in Rows |-> InitStateJointVel]
  /\ joint_pos = [i \in Rows |-> InitStateJointPos]
  /\ joint_vel = [i \in Rows |-> InitStateJointVel]
  /\ stable_count = [i \in Rows |-> 0]
  /\ episode_length_buf = [i \in Rows |-> 0]
  /\ dones = [i \in Rows |-> FALSE]
  /\ time_outs = [i \in Rows |-> FALSE]
  /\ success = [i \in Rows |-> FALSE]
  /\ sustained = [i \in Rows |-> FALSE]
  /\ stable_condition = [i \in Rows |-> FALSE]
  /\ env_ids = {}
  /\ actions = [i \in Rows |-> <<>>]
  /\ effort_target = [i \in Rows |-> <<0, 0>>]
  /\ failed = FALSE
  /\ angle_out = 0
  /\ angle_twice = 0
  /\ reward = [i \in Rows |-> 0]

\* no observation asked of the velocity scaling yet
ObsIdle ==
  /\ vel_in = <<0, 0>>
  /\ max_vel_in = max_velocity
  /\ vel_out = <<0, 0>>

\* grid_search_driver.main has not started a subprocess
DriverIdle ==
  /\ driver_i = 0
  /\ driver_launched = <<>>
  /\ driver_alive = {}
  /\ driver_exits = <<>>
  /\ driver_printed = FALSE

\* a run name: None, or a string made of a base and the pieces appended to it
NoneName == [none |-> TRUE, base |-> "", parts |-> <<>>]
StrName(base) == [none |-> FALSE, base |-> base, parts |-> <<>>]

\* env_cfg and agent_cfg as hydra hands them to grid_search.main
HydraEnvCfg == [reward_state_weights |-> <<1000, 2000, 100, 100>>]
HydraAgentCfg == [full_experiment_name |-> NoneName]

\* grid_search.main has not entered its loop
GridIdle ==
  /\ grid_argv_run_name = NoneName
  /\ grid_run_name = NoneName
  /\ grid_old_run_name = NoneName
  /\ grid_i = 0
  /\ grid_env_cfg = HydraEnvCfg
  /\ grid_agent_cfg = HydraAgentCfg
  /\ grid_local_env_cfg = HydraEnvCfg
  /\ grid_local_agent_cfg = HydraAgentCfg
  /\ grid_runs = <<>>

\* play_grid.main has not listed BASE_DIR
PlayIdle ==
  /\ play_entries = <<>>
  /\ play_todo = <<>>
  /\ play_results = <<>>
  /\ play_launched = {}
  /\ play_csv = <<>>

\* what env.step returns to the evaluation loop: the done flag, and whether
\* the observation is within success_threshold of the normalized goal
NoStep == [done |-> FALSE, within |-> FALSE]

\* test.main has not reached its loop
EvalIdle ==
  /\ eval_max_steps = 0
  /\ eval_step_count = 0
  /\ eval_goal_reached = FALSE
  /\ eval_last = NoStep
  /\ eval_printed = <<>>

\* no script has done anything
ScriptsIdle == DriverIdle /\ GridIdle /\ PlayIdle /\ EvalIdle

\* nothing outside the environment's own calls has run
ToolsIdle == ObsIdle /\ ScriptsIdle

\* action_spaces as the class body of the cfg computes it from a robot type
ActionSpaces(type) == IF type = "double_pendulum" THEN 2 ELSE 1

Init ==
  /\ Constructed
  /\ ToolsIdle
  /\ angle_in = 0
  /\ pc = "start"
  /\ robot_type = DefaultRobotType
  /\ goal_state = DefaultGoalState
  /\ action_spaces = ActionSpaces(DefaultRobotType)

Next == EnvReset \/ Sim \/ GetDones \/ GetRewards \/ StepReset

Spec == Init /\ [][Next]_vars

\* ------------------------------------------- reset_idx called on its own
\* index arguments: every subset of the rows, and an index below -N, the
\* indices -N and -1, and the index N, alone or beside row 0
EnvIdArgs ==
  (SUBSET Rows) \cup
  { s \cup {x} : s \in {{}, {0}}, x \in {-(NumEnvs + 1), -NumEnvs, -1, NumEnvs} }

\* the last step boundary of an episode before its time-out, after `e` steps
\* in which the simulation left every row i in joint state js[i] each time:
\* a row within the threshold has counted e steps, the others 0
InitReset ==
  /\ pc = "sim"
  /\ robot_type = DefaultRobotType
  /\ goal_state = DefaultGoalState
  /\ action_spaces = ActionSpaces(DefaultRobotType)
  /\ default_joint_pos = [i \in Rows |-> InitStateJointPos]
  /\ default_joint_vel = [i \in Rows |-> InitStateJointVel]
  /\ \E js \in [Rows -> JointStates], e \in {MaxEpisodeLength - 2} :
       LET below == [i \in Rows |->
                       BelowThreshold(Observation(js[i].pos, js[i].vel), RewardGoal(goal_state))]
       IN /\ joint_pos = [i \in Rows |-> js[i].pos]
          /\ joint_vel = [i \in Rows |-> js[i].vel]
          /\ episode_length_buf = [i \in Rows |-> e]
          /\ stable_count = [i \in Rows |-> IF below[i] THEN e ELSE 0]
          /\ success = below
          /\ stable_condition = below
          /\ sustained = [i \in Rows |-> below[i] /\ e - 1 >= sustain_steps]
  /\ dones = [i \in Rows |-> FALSE]
  /\ time_outs = [i \in Rows |-> FALSE]
  /\ env_ids = {}
  /\ actions = [i \in Rows |-> <<>>]
  /\ effort_target = [i \in Rows |-> <<0, 0>>]
  /\ failed = FALSE
  /\ angle_in = 0
  /\ angle_out = 0
  /\ angle_twice = 0
  /\ reward = [i \in Rows |-> 0]
  /\ ToolsIdle

\* a caller's _reset_idx(ids) between two steps
CallReset ==
  /\ pc = "sim"
  /\ ~failed
  /\ \E ids \in EnvIdArgs :
       \E off \in SampleOffsets(IF IndexError(ids) THEN {} ELSE RowsOf(ids)),
          rejects \in Rejections(ids) :
         /\ ResetIdx(ids, off, rejects)
         /\ env_ids' = ids
  /\ UNCHANGED <<pc, cfgVars, doneVars, stable_condition, actVars, normVars, reward, toolVars>>

NextReset == CallReset

SpecReset == InitReset /\ [][NextReset]_vars

\* ------------------------------- steps with partial resets between them
\* rows a caller resets on its own: the first k rows, k < N (the rows are
\* interchangeable: no operation tells one row from another)
PartialResetArgs == { 0 .. k : k \in 0 .. (NumEnvs - 2) }

\* a caller's _reset_idx(ids) at the step boundary where the rows, still in
\* step with each other, have run sustain_steps steps of their episode
PartialReset ==
  /\ pc = "sim"
  /\ ~failed
  /\ \A i \in Rows : episode_length_buf[i] = sustain_steps
  /\ \E ids \in PartialResetArgs :
       \E off \in SampleOffsets(ids) :
         /\ ResetIdx(ids, off, "none")
         /\ env_ids' = ids
  /\ UNCHANGED <<pc, cfgVars, doneVars, stable_condition, actVars, normVars, reward, toolVars>>

NextPartial == Next \/ PartialReset

SpecPartial == Init /\ [][NextPartial]_vars

\* --------------------------------------------------------- apply_action
\* normalized torque commands a policy may give one joint
ActionValues == {-1, 2}

\* widths k of an action batch of shape (N, k)
ActionWidths == {1, 2}

\* number of components of each row of an (N, k) batch
Width(batch) == Len(batch[0])

\* _pre_physics_step(actions): self.actions = actions; the width of the
\* batches stays what it was on the first step
PrePhysicsStep ==
  /\ pc = "pre_physics"
  /\ ~failed
  /\ \E k \in ActionWidths :
       /\ Width(actions) \in {0, k}
       /\ actions' \in [Rows -> [1 .. k -> ActionValues]]
  /\ pc' = "apply"
  /\ UNCHANGED <<cfgVars, envVars, doneVars, stable_condition, env_ids, effort_target,
                 failed, normVars, reward, toolVars>>

\* torque = self.actions["pendulum"] * cfg.torque_scale
Torque(batch) == [i \in Rows |-> [c \in 1 .. Width(batch) |-> batch[i][c] * torque_scale]]

JointIdsSwapped(type) ==
  IF type = "acrobot" THEN <<shoulder_dof_idx>>
  ELSE IF type = "pendubot" THEN <<elbow_dof_idx>>
  ELSE <<shoulder_dof_idx, elbow_dof_idx>>

\* joint_ids of the set_joint_effort_target call of each robot type (none
\* given for the double pendulum: every joint)
JointIds(type) ==
  IF type = "acrobot" THEN <<elbow_dof_idx>>
  ELSE IF type = "pendubot" THEN <<shoulder_dof_idx>>
  ELSE <<shoulder_dof_idx, elbow_dof_idx>>

\* joint_effort_target[:, joint_ids] = target: the (N, k) target must have
\* as many columns as joint_ids, or one column, which is broadcast
AssignOk(target, joint_ids) == Width(target) = Len(joint_ids) \/ Width(target) = 1

\* the buffer after joint_effort_target[:, joint_ids] = target
SetJointEffortTarget(buf, target, joint_ids) ==
  [i \in Rows |->
     [j \in 1 .. 2 |->
        IF \E c \in 1 .. Len(joint_ids) : joint_ids[c] = j
        THEN LET c == CHOOSE c \in 1 .. Len(joint_ids) : joint_ids[c] = j
             IN target[i][IF Width(target) = 1 THEN 1 ELSE c]
        ELSE buf[i][j]]]

ApplyAction ==
  /\ pc = "apply"
  /\ ~failed
  /\ IF AssignOk(Torque(actions), JointIds(robot_type))
     THEN /\ effort_target' =
               SetJointEffortTarget(effort_target, Torque(actions), JointIds(robot_type))
          /\ pc' = "pre_physics"
          /\ UNCHANGED failed
     ELSE /\ failed' = TRUE
          /\ UNCHANGED <<pc, effort_target>>
  /\ UNCHANGED <<cfgVars, envVars, doneVars, stable_condition, env_ids, actions, normVars, reward, toolVars>>

\* an environment built for any robot type: action_spaces is what the class
\* body computed from the robot type written in the cfg
InitAction ==
  /\ Constructed
  /\ ToolsIdle
  /\ angle_in = 0
  /\ pc = "pre_physics"
  /\ robot_type \in RobotTypes
  /\ goal_state = DefaultGoalState
  /\ action_spaces = ActionSpaces(DefaultRobotType)

NextAction == PrePhysicsStep \/ ApplyAction

SpecAction == InitAction /\ [][NextAction]_vars

\* ------------------------------------------------------ normalize_angle
\* angles given to normalize_angle: every quarter turn up to MaxQuarterTurns
\* either way, and the angles one milliradian either side of each
AngleInputs ==
  { q * (Pi \div 2) + d : q \in -MaxQuarterTurns .. MaxQuarterTurns, d \in {-1, 0, 1} }

InitNorm ==
  /\ Constructed
  /\ ToolsIdle
  /\ pc = "normalize"
  /\ robot_type = DefaultRobotType
  /\ goal_state = DefaultGoalState
  /\ action_spaces = ActionSpaces(DefaultRobotType)
  /\ angle_in \in AngleInputs

Normalize ==
  /\ pc = "normalize"
  /\ angle_out' = normalize_angle(angle_in)
  /\ pc' = "normalize_again"
  /\ UNCHANGED <<cfgVars, envVars, doneVars, stable_condition, env_ids, actVars, failed,
                 angle_in, angle_twice, reward, toolVars>>

NormalizeAgain ==
  /\ pc = "normalize_again"
  /\ angle_twice' = normalize_angle(angle_out)
  /\ pc' = "normalized"
  /\ UNCHANGED <<cfgVars, envVars, doneVars, stable_condition, env_ids, actVars, failed,
                 angle_in, angle_out, reward, toolVars>>

NextNorm == Normalize \/ NormalizeAgain

SpecNorm == InitNorm /\ [][NextNorm]_vars

\* --------------------------------------------- the reward of one step
\* joint states rewarded: those of JointStates, one inside the threshold
\* with every error non-zero, and one next to the goal across the wrap at pi
RewardJointStates ==
  JointStates \cup
  { [pos |-> <<50 - Pi, -30>>, vel |-> <<100, -100>>],
    [pos |-> <<Pi - 50, 30>>, vel |-> <<0, 0>>] }

\* action rows of an acrobot policy: no torque, 2.0 and -1.0
RewardActions == { <<0>>, <<2>>, <<-1>> }

\* the first step of an episode: the actions are stored and the simulation
\* has moved the joints; get_dones and get_rewards are still to run
InitReward ==
  /\ pc = "dones"
  /\ robot_type = DefaultRobotType
  /\ goal_state = DefaultGoalState
  /\ action_spaces = ActionSpaces(DefaultRobotType)
  /\ default_joint_pos = [i \in Rows |-> InitStateJointPos]
  /\ default_joint_vel = [i \in Rows |-> InitStateJointVel]
  /\ \E js \in [Rows -> RewardJointStates] :
       /\ joint_pos = [i \in Rows |-> js[i].pos]
       /\ joint_vel = [i \in Rows |-> js[i].vel]
  /\ actions \in [Rows -> RewardActions]
  /\ stable_count = [i \in Rows |-> 0]
  /\ episode_length_buf = [i \in Rows |-> 1]
  /\ dones = [i \in Rows |-> FALSE]
  /\ time_outs = [i \in Rows |-> FALSE]
  /\ success = [i \in Rows |-> FALSE]
  /\ sustained = [i \in Rows |-> FALSE]
  /\ stable_condition = [i \in Rows |-> FALSE]
  /\ env_ids = {}
  /\ effort_target = [i \in Rows |-> <<0, 0>>]
  /\ failed = FALSE
  /\ angle_in = 0
  /\ angle_out = 0
  /\ angle_twice = 0
  /\ reward = [i \in Rows |-> 0]
  /\ ToolsIdle

NextReward == GetDones \/ GetRewards

SpecReward == InitReward /\ [][NextReward]_vars

\* ------------------------------------- the velocities of an observation
\* values of cfg.max_velocity: a thousandth, a half, the cfg's 5.0, and 50.0
MaxVelocities == {1, 500, max_velocity, 10 * max_velocity}

\* joint velocities around each multiple of the maximum up to MaxSpans of it
\* either way, and one forty times the maximum
VelocityInputs(mv) ==
  { k * mv + d : k \in -MaxSpans .. MaxSpans, d \in {-1, 0, 1} } \cup {-40 * mv, 40 * mv}

InitVel ==
  /\ Constructed
  /\ angle_in = 0
  /\ pc = "scale"
  /\ robot_type = DefaultRobotType
  /\ goal_state = DefaultGoalState
  /\ action_spaces = ActionSpaces(DefaultRobotType)
  /\ max_vel_in \in MaxVelocities
  /\ vel_in \in VelocityInputs(max_vel_in) \X VelocityInputs(max_vel_in)
  /\ vel_out = <<0, 0>>
  /\ ScriptsIdle

\* shoulder_vel and elbow_vel of _get_observations: scaled, then clamped
ScaleVelocity ==
  /\ pc = "scale"
  /\ vel_out' = << Clamp(ScaledVelBy(vel_in[shoulder_dof_idx], max_vel_in)),
                   Clamp(ScaledVelBy(vel_in[elbow_dof_idx], max_vel_in)) >>
  /\ pc' = "scaled"
  /\ UNCHANGED <<cfgVars, envVars, doneVars, stable_condition, env_ids, actVars, failed,
                 normVars, reward, vel_in, max_vel_in, scriptVars>>

NextVel == ScaleVelocity

SpecVel == InitVel /\ [][NextVel]_vars

\* ------------------------------------------------ grid_search_driver.py
\* WEIGHT_VALUES = [0.1, 1.0, 2.0]
WEIGHT_VALUES == <<100, 1000, 2000>>

\* the repeat=4 of itertools.product: one weight for each state component
WeightPositions == 4

\* list(itertools.product(values, repeat=repeat)): the last position runs fastest
RECURSIVE Product(_, _)
Product(values, repeat) ==
  IF repeat = 0 THEN << <<>> >>
  ELSE LET rest == Product(values, repeat - 1)
       IN [k \in 1 .. (Len(values) * Len(rest)) |->
             << values[((k - 1) \div Len(rest)) + 1] >> \o rest[((k - 1) % Len(rest)) + 1]]

all_combos == Product(WEIGHT_VALUES, WeightPositions)

\* exit statuses of a training subprocess: success and failure
ExitStatuses == {0, 1}

\* the environment's variables in a process that holds no environment
NoEnvironment ==
  /\ Constructed
  /\ angle_in = 0
  /\ robot_type = DefaultRobotType
  /\ goal_state = DefaultGoalState
  /\ action_spaces = ActionSpaces(DefaultRobotType)
  /\ ObsIdle

InitDriver ==
  /\ NoEnvironment
  /\ pc = "driver_loop"
  /\ DriverIdle
  /\ GridIdle
  /\ PlayIdle
  /\ EvalIdle

CheckIgnored(status) == FALSE

\* check=True: subprocess.run raises CalledProcessError on a non-zero status
CheckRaises(status) == status # 0

\* the loop body up to subprocess.run starting the child (or failing to)
DriverLaunch ==
  /\ pc = "driver_loop"
  /\ driver_i < Len(all_combos)
  /\ \/ /\ driver_launched' = Append(driver_launched, all_combos[driver_i + 1])
        /\ driver_alive' = driver_alive \cup {driver_i}
        /\ pc' = "driver_run"
     \/ /\ pc' = "driver_raised"
        /\ UNCHANGED <<driver_launched, driver_alive>>
  /\ UNCHANGED <<envAll, driver_i, driver_exits, driver_printed, gridVars, playVars, evalVars>>

\* the training subprocess ends
TrainingExit ==
  /\ pc = "driver_run"
  /\ driver_i \in driver_alive
  /\ \E status \in ExitStatuses : driver_exits' = Append(driver_exits, status)
  /\ driver_alive' = driver_alive \ {driver_i}
  /\ UNCHANGED <<pc, envAll, driver_i, driver_launched, driver_printed, gridVars, playVars, evalVars>>

\* subprocess.run returns once the child has exited, or raises on its status
DriverRunReturns ==
  /\ pc = "driver_run"
  /\ driver_i \notin driver_alive
  /\ IF CheckRaises(driver_exits[Len(driver_exits)])
     THEN pc' = "driver_raised" /\ UNCHANGED driver_i
     ELSE pc' = "driver_loop" /\ driver_i' = driver_i + 1
  /\ UNCHANGED <<envAll, driver_launched, driver_alive, driver_exits, driver_printed, gridVars, playVars, evalVars>>

\* the loop is over: print("All grid runs completed!")
DriverFinish ==
  /\ pc = "driver_loop"
  /\ driver_i = Len(all_combos)
  /\ driver_printed' = TRUE
  /\ pc' = "driver_done"
  /\ UNCHANGED <<envAll, driver_i, driver_launched, driver_alive, driver_exits, gridVars, playVars,
                 evalVars>>

NextDriver == DriverLaunch \/ TrainingExit \/ DriverRunReturns \/ DriverFinish

SpecDriver == InitDriver /\ [][NextDriver]_vars

\* ------------------------------------------------------- grid_search.py
\* values of --run_name: not given, an empty string, a name
RunNameArgs == { NoneName, StrName(""), StrName("exp") }

\* sub_run_name = f"grid_{i:03d}_{w1}-{w2}-{w3}-{w4}"
SubRunName(i, combo) == <<"grid", i, combo>>

\* old_run_name + sub_run_name: str + str
Concat(name, piece) == [name EXCEPT !.parts = Append(@, piece)]

\* a str is falsy when it is empty
Falsy(name) == name.none \/ (name.base = "" /\ name.parts = <<>>)

\* copy.deepcopy(cfg): a new object with the same content
deepcopy(cfg) == cfg

\* main has parsed its arguments with --grid_search set, applied the
\* overrides of the command line and built all_combos
InitGrid ==
  /\ NoEnvironment
  /\ DriverIdle
  /\ PlayIdle
  /\ EvalIdle
  /\ pc = "grid_loop"
  /\ grid_argv_run_name \in RunNameArgs
  /\ grid_run_name = grid_argv_run_name
  /\ grid_old_run_name = NoneName
  /\ grid_i = 0
  /\ grid_env_cfg = HydraEnvCfg
  /\ grid_agent_cfg = HydraAgentCfg
  /\ grid_local_env_cfg = HydraEnvCfg
  /\ grid_local_agent_cfg = HydraAgentCfg
  /\ grid_runs = <<>>

\* the loop body up to the call of run_single_training: the copies, the
\* weights, and args_cli.run_name = old_run_name + sub_run_name, a TypeError
\* when old_run_name is None
GridIterate ==
  /\ pc = "grid_loop"
  /\ grid_i < Len(all_combos)
  /\ grid_local_env_cfg' =
       [deepcopy(grid_env_cfg) EXCEPT !.reward_state_weights = all_combos[grid_i + 1]]
  /\ grid_local_agent_cfg' = deepcopy(grid_agent_cfg)
  /\ grid_old_run_name' = grid_run_name
  /\ IF grid_run_name.none
     THEN /\ pc' = "grid_raised"
          /\ UNCHANGED grid_run_name
     ELSE /\ grid_run_name' = Concat(grid_run_name, SubRunName(grid_i, all_combos[grid_i + 1]))
          /\ pc' = "grid_training"
  /\ UNCHANGED <<envAll, driverVars, playVars, evalVars, grid_argv_run_name, grid_i, grid_env_cfg, grid_agent_cfg,
                 grid_runs>>

\* run_single_training(local_env_cfg, local_agent_cfg, args_cli, ...): the
\* run is named after args_cli.run_name and writes its log directory into
\* the agent cfg it was given
GridTrain ==
  /\ pc = "grid_training"
  /\ LET run_name == IF Falsy(grid_run_name) THEN StrName("unknown_task") ELSE grid_run_name
         log_dir == Concat(run_name, "_train")
     IN /\ grid_local_agent_cfg' = [grid_local_agent_cfg EXCEPT !.full_experiment_name = log_dir]
        /\ grid_runs' = Append(grid_runs,
                               [reward_state_weights |-> grid_local_env_cfg.reward_state_weights,
                                run_name |-> run_name])
  /\ pc' = "grid_restore"
  /\ UNCHANGED <<envAll, driverVars, playVars, evalVars, grid_argv_run_name, grid_run_name, grid_old_run_name,
                 grid_i, grid_env_cfg, grid_agent_cfg, grid_local_env_cfg>>

\* args_cli.run_name = old_run_name, and on to the next combination
GridRestore ==
  /\ pc = "grid_restore"
  /\ grid_run_name' = grid_old_run_name
  /\ grid_i' = grid_i + 1
  /\ pc' = "grid_loop"
  /\ UNCHANGED <<envAll, driverVars, playVars, evalVars, grid_argv_run_name, grid_old_run_name, grid_env_cfg,
                 grid_agent_cfg, grid_local_env_cfg, grid_local_agent_cfg, grid_runs>>

\* the loop is over and main returns
GridFinish ==
  /\ pc = "grid_loop"
  /\ grid_i = Len(all_combos)
  /\ pc' = "grid_done"
  /\ UNCHANGED <<envAll, driverVars, gridVars, playVars, evalVars>>

NextGrid == GridIterate \/ GridTrain \/ GridRestore \/ GridFinish

SpecGrid == InitGrid /\ [][NextGrid]_vars

\* --------------------------------------------------------- play_grid.py
\* lines play.py may print: a line is text, perhaps with "TIME_TO_GOAL=" in
\* it, followed by `token`, the run of characters [A-Za-z0-9.\-_] after it
InfoLine == [time_to_goal |-> FALSE, token |-> ""]
TimeLine(token) == [time_to_goal |-> TRUE, token |-> token]

\* what an entry of BASE_DIR may be: its name from a head and a tail, whether
\* nn/double_pendulum.pth is a file in it, and what running play.py on it
\* does: subprocess.run raising, or an exit status and a stdout
Entry(head, tail, checkpoint, raises, status, stdout) ==
  [head |-> head, tail |-> tail, checkpoint |-> checkpoint, raises |-> raises,
   status |-> status, stdout |-> stdout]

EntryKinds ==
  { Entry("pendubot_grid", "_train", TRUE, FALSE, 0, <<InfoLine, TimeLine("1.2500")>>),
    Entry("acrobot_grid", "_play", TRUE, FALSE, 0, <<InfoLine, TimeLine("1.2500")>>),
    Entry("acrobot_grid", "_train", FALSE, FALSE, 0, <<InfoLine, TimeLine("1.2500")>>),
    Entry("acrobot_grid", "_train", TRUE, TRUE, 1, <<>>),
    Entry("acrobot_grid", "_train", TRUE, FALSE, 0, <<InfoLine, TimeLine("1.2500")>>),
    Entry("acrobot_grid", "_train", TRUE, FALSE, 0, <<TimeLine("FAIL"), InfoLine>>),
    Entry("acrobot_grid", "_train", TRUE, FALSE, 1, <<InfoLine>>),
    Entry("acrobot_grid", "_train", TRUE, FALSE, 1, <<TimeLine("0.5000"), InfoLine>>),
    Entry("acrobot_grid", "_train", TRUE, FALSE, 0, <<TimeLine(""), TimeLine("FAIL")>>) }

\* sorted(names): the names in ascending order
RECURSIVE Sorted(_)
Sorted(names) ==
  IF names = {} THEN <<>>
  ELSE LET least == CHOOSE n \in names : \A o \in names : n <= o
       IN <<least>> \o Sorted(names \ {least})

MatchesEither(entry) == entry.head = "acrobot_grid" \/ entry.tail = "_train"

\* the entry is not skipped: startswith("acrobot_grid") and endswith("_train")
Matches(entry) == entry.head = "acrobot_grid" /\ entry.tail = "_train"

\* re.search(r"TIME_TO_GOAL=([A-Za-z0-9.\-_]+)", stdout): the lines where it matches
TokenLines(stdout) ==
  { k \in 1 .. Len(stdout) : stdout[k].time_to_goal /\ stdout[k].token # "" }

\* group(1) of the first match
FirstToken(stdout) ==
  stdout[CHOOSE k \in TokenLines(stdout) : \A o \in TokenLines(stdout) : k <= o].token

\* re.search(r"TIME_TO_GOAL=FAIL", stdout) finds a match
FailMatch(stdout) ==
  \E k \in 1 .. Len(stdout) : stdout[k].time_to_goal /\ stdout[k].token = "FAIL"

\* time_str of a subprocess.run that returned
TimeStr(stdout) ==
  IF TokenLines(stdout) # {} THEN FirstToken(stdout)
  ELSE IF FailMatch(stdout) THEN "FAIL"
  ELSE "ERROR: see logs"

\* results holds its header, and the loop is about to start over the
\* sorted names of BASE_DIR
InitPlay ==
  /\ NoEnvironment
  /\ DriverIdle
  /\ GridIdle
  /\ EvalIdle
  /\ pc = "play_loop"
  /\ \E names \in SUBSET (1 .. MaxEntries) :
       /\ play_entries \in [names -> EntryKinds]
       /\ play_todo = Sorted(names)
  /\ play_results = << <<"Model Directory", "Time to Goal (s)">> >>
  /\ play_launched = {}
  /\ play_csv = <<>>

\* an entry that is not an experiment folder: continue
PlaySkip ==
  /\ pc = "play_loop"
  /\ play_todo # <<>>
  /\ ~Matches(play_entries[Head(play_todo)])
  /\ play_todo' = Tail(play_todo)
  /\ UNCHANGED <<pc, envAll, driverVars, gridVars, evalVars, play_entries, play_results,
                 play_launched, play_csv>>

\* no checkpoint file: a NO_CHECKPOINT row, continue
PlayNoCheckpoint ==
  /\ pc = "play_loop"
  /\ play_todo # <<>>
  /\ Matches(play_entries[Head(play_todo)])
  /\ ~play_entries[Head(play_todo)].checkpoint
  /\ play_results' = Append(play_results, <<Head(play_todo), "NO_CHECKPOINT">>)
  /\ play_todo' = Tail(play_todo)
  /\ UNCHANGED <<pc, envAll, driverVars, gridVars, evalVars, play_entries, play_launched,
                 play_csv>>

\* subprocess.run(cmd, capture_output=True, text=True, check=False) and the
\* row made of its stdout, or of the exception it raised
PlayEvaluate ==
  /\ pc = "play_loop"
  /\ play_todo # <<>>
  /\ Matches(play_entries[Head(play_todo)])
  /\ play_entries[Head(play_todo)].checkpoint
  /\ play_launched' = play_launched \cup {Head(play_todo)}
  /\ play_results' =
       Append(play_results,
              << Head(play_todo),
                 IF play_entries[Head(play_todo)].raises THEN "ERROR: exception"
                 ELSE TimeStr(play_entries[Head(play_todo)].stdout) >>)
  /\ play_todo' = Tail(play_todo)
  /\ UNCHANGED <<pc, envAll, driverVars, gridVars, evalVars, play_entries, play_csv>>

\* the loop is over: writer.writerows(results)
PlayWriteCsv ==
  /\ pc = "play_loop"
  /\ play_todo = <<>>
  /\ play_csv' = play_results
  /\ pc' = "play_done"
  /\ UNCHANGED <<envAll, driverVars, gridVars, evalVars, play_entries, play_todo,
                 play_results, play_launched>>

NextPlay == PlaySkip \/ PlayNoCheckpoint \/ PlayEvaluate \/ PlayWriteCsv

SpecPlay == InitPlay /\ [][NextPlay]_vars

\* --------------------------------------------------------------- test.py
\* possible returns of env.step, as the loop looks at them
StepReturns == [done : BOOLEAN, within : BOOLEAN]

\* len(dones) > 0 and any(dones)
EnvEnded(step) == step.done

GoalTestFirst(step) == step.within

\* the goal test is reached, and torch.norm(diff) < success_threshold
GoalTest(step) == ~EnvEnded(step) /\ step.within

\* f"{dt * step_count:.4f}", in ten-thousandths of a second
TimeToGoal(steps) ==
  (2 * steps * TenThousandths + PhysicsStepsPerSecond) \div (2 * PhysicsStepsPerSecond)

\* main is about to enter its loop: step_count = 0, goal_reached = False
InitEval ==
  /\ NoEnvironment
  /\ DriverIdle
  /\ GridIdle
  /\ PlayIdle
  /\ pc = "eval_loop"
  /\ eval_max_steps \in 1 .. MaxSteps
  /\ eval_step_count = 0
  /\ eval_goal_reached = FALSE
  /\ eval_last = NoStep
  /\ eval_printed = <<>>

\* one pass of the while loop: env.step, step_count += 1, and the three breaks
EvalStep ==
  /\ pc = "eval_loop"
  /\ eval_last' \in StepReturns
  /\ eval_step_count' = eval_step_count + 1
  /\ eval_goal_reached' = (eval_goal_reached \/ GoalTest(eval_last'))
  /\ pc' = IF EnvEnded(eval_last') \/ GoalTest(eval_last')
               \/ eval_step_count' >= eval_max_steps
            THEN "eval_print" ELSE "eval_loop"
  /\ UNCHANGED <<envAll, driverVars, gridVars, playVars, eval_max_steps, eval_printed>>

\* after the loop: print the time to goal, or TIME_TO_GOAL=FAIL
EvalPrint ==
  /\ pc = "eval_print"
  /\ eval_printed' =
       Append(eval_printed,
              IF eval_goal_reached THEN <<"TIME_TO_GOAL=", TimeToGoal(eval_step_count)>>
              ELSE <<"TIME_TO_GOAL=FAIL">>)
  /\ pc' = "eval_done"
  /\ UNCHANGED <<envAll, driverVars, gridVars, playVars, eval_max_steps, eval_step_count,
                 eval_goal_reached, eval_last>>

NextEval == EvalStep \/ EvalPrint

SpecEval == InitEval /\ [][NextEval]_vars

\* goal states a cfg may name: the shoulder upright as -pi, +pi or 3 pi
GoalStates == { <<-Pi, 0, 0, 0>>, <<Pi, 0, 0, 0>>, <<3 * Pi, 0, 0, 0>> }

InitGoal ==
  /\ Constructed
  /\ ToolsIdle
  /\ angle_in = 0
  /\ pc = "start"
  /\ robot_type = DefaultRobotType
  /\ goal_state \in GoalStates
  /\ action_spaces = ActionSpaces(DefaultRobotType)

\* the step loop under every goal state of GoalStates
SpecGoal == InitGoal /\ [][Next]_vars

\* ------------------------------------------------------------------ C1
\* C1: in one step (get_dones, then get_rewards) stable_count changes once:
\* get_dones leaves it, and get_rewards makes each row's count the old count
\* plus 1 when that row's own error norm is below success_threshold and 0
\* otherwise.
C1_StableCountOncePerStep ==
  [][ /\ (pc = "dones" /\ pc' = "rewards") => stable_count' = stable_count
      /\ (pc = "rewards" /\ pc' = "reset") =>
           \A i \in Rows :
             LET obs == Observation(joint_pos[i], joint_vel[i])
                 goal == << normalize_angle(goal_state[1]), normalize_angle(goal_state[2]),
                            goal_state[3], goal_state[4] >>
             IN stable_count'[i] =
                  IF ErrorNormSq(obs, goal) < success_threshold * success_threshold
                  THEN stable_count[i] + 1 ELSE 0 ]_vars

\* one row counted up twice in a row while another was reset to 0
C1_Witness ==
  /\ pc = "reset"
  /\ \E i, j \in Rows : /\ stable_condition[i] /\ stable_count[i] = 2
                        /\ ~stable_condition[j] /\ stable_count[j] = 0

C4_SuccessMatchesStableCondition ==
  pc = "reset" => \A i \in Rows : success[i] = stable_condition[i]

\* ------------------------------------------------------------------ C8
\* C8 as claimed: on the sustain_steps-th step of a run that started from a
\* fresh reset and stayed below the threshold, get_dones finds sustained true.
C8_SustainedOnSustainStepsThStep ==
  pc = "rewards" =>
    \A i \in Rows :
      (episode_length_buf[i] = sustain_steps /\ stable_count[i] = sustain_steps - 1
         /\ success[i]) => sustained[i]

\* C8 amended: when get_dones runs on step k of an episode the count is at
\* most k - 1, so sustained is false on steps 1..sustain_steps, and it is
\* true on step sustain_steps + 1 of a run that stayed below the threshold
\* (count = sustain_steps, reached by get_rewards of step sustain_steps).
C8_SustainedOneStepLater ==
  pc = "rewards" =>
    \A i \in Rows :
      /\ stable_count[i] <= episode_length_buf[i] - 1
      /\ episode_length_buf[i] <= sustain_steps => ~sustained[i]
      /\ (episode_length_buf[i] = sustain_steps + 1 /\ stable_count[i] = sustain_steps)
           => sustained[i]

\* step sustain_steps + 1 of an unbroken run: sustained is true
C8_Witness ==
  /\ pc = "rewards"
  /\ \E i \in Rows : /\ episode_length_buf[i] = sustain_steps + 1
                     /\ stable_count[i] = sustain_steps
                     /\ sustained[i]

\* ------------------------------------------------------------------ C2
\* C2: _reset_idx(env_ids) with env_ids a subset of the rows leaves joint_pos,
\* joint_vel and stable_count of every row outside env_ids as they were.
C2_ResetFrame ==
  [][ (pc = "sim" /\ pc' = "sim" /\ env_ids' \subseteq Rows) =>
        \A i \in Rows \ env_ids' : /\ joint_pos'[i] = joint_pos[i]
                                   /\ joint_vel'[i] = joint_vel[i]
                                   /\ stable_count'[i] = stable_count[i] ]_vars

\* a partial reset has returned; a row outside it still moves and counts
C2_Witness ==
  /\ pc = "sim" /\ ~failed
  /\ env_ids # {} /\ env_ids \subseteq Rows
  /\ \E j \in env_ids : episode_length_buf[j] = 0
  /\ \E i \in Rows \ env_ids : stable_count[i] > 0 /\ joint_vel[i] # InitStateJointVel

\* ------------------------------------------------------------------ C7
\* C7: after _reset_idx(env_ids) returns, every row of env_ids has
\* stable_count 0, the default joint velocities, and each joint within
\* [default + lo*pi, default + hi*pi] of its own range, the defaults being
\* those of the robot's init_state however often the row was reset before.
C7_ResetRows ==
  (pc = "sim" /\ ~failed /\ env_ids \subseteq Rows) =>
    \A i \in env_ids :
      /\ stable_count[i] = 0
      /\ joint_vel[i] = InitStateJointVel
      /\ joint_pos[i][1] >= InitStateJointPos[1] + initial_shoulder_angle_range[1] * Pi
      /\ joint_pos[i][1] <= InitStateJointPos[1] + initial_shoulder_angle_range[2] * Pi
      /\ joint_pos[i][2] >= InitStateJointPos[2] + initial_elbow_angle_range[1] * Pi
      /\ joint_pos[i][2] <= InitStateJointPos[2] + initial_elbow_angle_range[2] * Pi

\* a row that had counted stable steps has been reset to the low end of both ranges
C7_Witness ==
  /\ pc = "sim" /\ ~failed
  /\ \E i \in env_ids : /\ i \in Rows
                        /\ joint_pos[i] = <<-Pi, -Pi>>
                        /\ \E j \in Rows \ env_ids : stable_count[j] > 0

\* ------------------------------------------------------------------ C9
\* C9: a _reset_idx call given an index outside [0, N) never returns: it
\* ends in a fatal error.
C9_OutOfRangeRejected ==
  (pc = "sim" /\ ~(env_ids \subseteq Rows)) => failed

\* ------------------------------------------------------------------ C5
\* C5 as claimed: normalize_angle returns a value in (-pi, pi].
C5_HalfOpenAbove ==
  pc \in {"normalize_again", "normalized"} => (angle_out > -Pi /\ angle_out <= Pi)

\* C5 amended: normalize_angle returns a value in [-pi, pi): at least -pi and
\* strictly below +pi; +pi, -pi and every odd multiple of pi go to -pi.
C5_HalfOpenBelow ==
  /\ pc \in {"normalize_again", "normalized"} => (angle_out >= -Pi /\ angle_out < Pi)
  /\ (pc \in {"normalize_again", "normalized"} /\ angle_in % (2 * Pi) = Pi) => angle_out = -Pi

\* +pi has been normalized, to -pi
C5_Witness ==
  pc = "normalize_again" /\ angle_in = Pi /\ angle_out = -Pi

\* ------------------------------------------------------------------ C6
\* C6: with an action batch whose width does not match the robot type,
\* apply_action does not return: no effort target is written and the
\* environment has failed by the time the call is over.
C6_MismatchIsFatal ==
  (Width(actions) # 0 /\ Width(actions) # ActionSpaces(robot_type)) =>
    /\ effort_target = [i \in Rows |-> <<0, 0>>]
    /\ pc = "apply"

\* ----------------------------------------------------------------- C10
\* C10: with an action batch of the width of the robot type, apply_action
\* returns having written torque_scale times the action to the elbow only
\* (acrobot), to the shoulder only (pendubot), or component by component to
\* both joints (double_pendulum); the other joint's target stays as it was.
C10_TorqueRouting ==
  [][ (pc = "apply" /\ Width(actions) = ActionSpaces(robot_type)) =>
        /\ pc' = "pre_physics" /\ ~failed'
        /\ \A i \in Rows :
             effort_target'[i] =
               IF robot_type = "acrobot"
               THEN <<effort_target[i][1], actions[i][1] * torque_scale>>
               ELSE IF robot_type = "pendubot"
               THEN <<actions[i][1] * torque_scale, effort_target[i][2]>>
               ELSE <<actions[i][1] * torque_scale, actions[i][2] * torque_scale>> ]_vars

\* an acrobot whose elbow got torque_scale * 2.0 and whose shoulder got nothing
C10_Witness ==
  /\ pc = "pre_physics" /\ robot_type = "acrobot"
  /\ \E i \in Rows : actions[i] = <<2>> /\ effort_target[i] = <<0, 2 * torque_scale>>

\* ----------------------------------------------------------------- C13
\* C13: normalize_angle is idempotent: applied to its own result it returns
\* that result again, for every input angle.
C13_Idempotent ==
  pc = "normalized" => angle_twice = angle_out

\* an angle more than a turn away has been normalized, and normalized again
C13_Witness ==
  /\ pc = "normalized"
  /\ angle_in > 2 * Pi
  /\ angle_out # angle_in
  /\ angle_twice = angle_out

\* ----------------------------------------------------------------- C14
\* C14: on a step where a row's stable_count is at least sustain_steps,
\* get_dones reports the row done although its episode has not timed out.
C14_SustainedTerminatesEarly ==
  pc = "rewards" =>
    \A i \in Rows :
      (stable_count[i] >= sustain_steps /\ episode_length_buf[i] < MaxEpisodeLength - 1)
        => dones[i]

\* ----------------------------------------------------------------- C19
\* C19: in every state reached by steps and partial resets, each row's
\* stable_count is at least 0 and at most the row's episode_length_buf, so
\* it stays below max_episode_length and inside a 32-bit integer.
C19_StableCountBounded ==
  \A i \in Rows :
    /\ 0 <= stable_count[i]
    /\ stable_count[i] <= episode_length_buf[i]
    /\ stable_count[i] < MaxEpisodeLength
    /\ stable_count[i] <= 2147483647

\* after a partial reset one row is back at zero while another, stable on
\* every step of its episode, has a count equal to its elapsed steps
C19_Witness ==
  /\ pc = "sim" /\ ~failed /\ env_ids # {} /\ env_ids # Rows
  /\ \E i \in env_ids : stable_count[i] = 0 /\ episode_length_buf[i] = 0
  /\ \E j \in Rows \ env_ids :
       stable_count[j] = episode_length_buf[j] /\ stable_count[j] >= sustain_steps

\* ----------------------------------------------------------------- C12
\* C12: for every joint velocity and every positive max_velocity, each
\* velocity component of the observation lies in [-1, 1]: it is the quotient
\* velocity / max_velocity when that is within [-1, 1], and the nearer bound
\* otherwise.
C12_VelocityInUnitInterval ==
  pc = "scaled" =>
    \A j \in Joints :
      /\ vel_out[j] >= -FixedOne /\ vel_out[j] <= FixedOne
      /\ vel_in[j] > max_vel_in => vel_out[j] = FixedOne
      /\ vel_in[j] < -max_vel_in => vel_out[j] = -FixedOne
      /\ (vel_in[j] >= -max_vel_in /\ vel_in[j] <= max_vel_in) =>
           /\ vel_out[j] * max_vel_in <= vel_in[j] * FixedOne
           /\ vel_in[j] * FixedOne < (vel_out[j] + 1) * max_vel_in

\* a shoulder far above the maximum, an elbow below minus the maximum
C12_Witness ==
  /\ pc = "scaled"
  /\ vel_in[shoulder_dof_idx] = 40 * max_vel_in /\ vel_out[shoulder_dof_idx] = FixedOne
  /\ vel_in[elbow_dof_idx] < -max_vel_in /\ vel_out[elbow_dof_idx] = -FixedOne

\* ----------------------------------------------------------------- C11
\* C11: the reward of a row is -reward_scale * (state_cost + action_cost)
\* - time_penalty + 0.01 * ((1 - tanh|e1|) + (1 - tanh|e2|)) + bonus, with
\* state_cost the weighted sum of the squared errors, action_cost the action
\* weight times the sum of the squared action components, and bonus equal to
\* bonus_reward exactly when the error norm is below success_threshold; at
\* the goal with zero action it is -time_penalty + 0.02 + bonus_reward, and
\* the action [2.0] takes 0.4 * reward_scale off the reward of no action.
C11_RewardFormula ==
  pc = "reset" =>
    \A i \in Rows :
      LET obs == Observation(joint_pos[i], joint_vel[i])
          goal == << normalize_angle(goal_state[1]), normalize_angle(goal_state[2]),
                     goal_state[3], goal_state[4] >>
          e == [k \in 1 .. 4 |-> obs[k] - goal[k]]
          state_cost == (10 * e[1] * e[1] + 20 * e[2] * e[2] + e[3] * e[3] + e[4] * e[4]) \div 10
          norm_sq == e[1] * e[1] + e[2] * e[2] + e[3] * e[3] + e[4] * e[4]
          bonus == IF norm_sq < success_threshold * success_threshold THEN 20000000 ELSE 0
          shaping == 10 * ((FixedOne - Tanh(Abs(e[1]))) + (FixedOne - Tanh(Abs(e[2]))))
          squares == IF Len(actions[i]) = 0 THEN 0
                     ELSE IF Len(actions[i]) = 1 THEN actions[i][1] * actions[i][1]
                     ELSE actions[i][1] * actions[i][1] + actions[i][2] * actions[i][2]
          no_action == -((reward_scale * state_cost) \div TenthsOne) - 10000 + shaping + bonus
      IN /\ reward[i] = -((reward_scale * (state_cost + 100000 * squares)) \div TenthsOne)
                           - 10000 + shaping + bonus
         /\ (obs = goal /\ squares = 0) => reward[i] = -10000 + 20000 + 20000000
         /\ actions[i] = <<2>> => reward[i] = no_action - (400000 * reward_scale) \div TenthsOne

\* one row at the goal with no torque, rewarded 20.01, beside a row on the
\* threshold that drew no bonus for the action [2.0]
C11_Witness ==
  /\ pc = "reset"
  /\ \E i, j \in Rows :
       /\ joint_pos[i] = <<-Pi, 0>> /\ joint_vel[i] = <<0, 0>> /\ actions[i] = <<0>>
       /\ reward[i] = 20010000
       /\ joint_vel[j] = <<500, 0>> /\ actions[j] = <<2>> /\ reward[j] < 0

\* ----------------------------------------------------------------- C15
\* C15: grid_search_driver.main starts the 81 weight combinations as
\* subprocesses one after another in product order: at most one is alive at
\* a time, a subprocess starts only after every earlier one has exited with
\* status 0, and after a non-zero exit nothing more is started and "All grid
\* runs completed!" is not printed.
C15_OneAfterAnother ==
  /\ Cardinality(driver_alive) <= 1
  /\ Len(driver_launched) <= 81
  /\ \A k \in 1 .. Len(driver_launched) :
       /\ driver_launched[k] =
            << WEIGHT_VALUES[(((k - 1) \div 27) % 3) + 1], WEIGHT_VALUES[(((k - 1) \div 9) % 3) + 1],
               WEIGHT_VALUES[(((k - 1) \div 3) % 3) + 1], WEIGHT_VALUES[((k - 1) % 3) + 1] >>
       /\ Len(driver_exits) >= k - 1
       /\ \A j \in 1 .. (k - 1) : driver_exits[j] = 0
  /\ \A k \in 1 .. Len(driver_exits) :
       driver_exits[k] # 0 => (Len(driver_launched) = k /\ ~driver_printed)
  /\ driver_printed => (Len(driver_launched) = 81 /\ Len(driver_exits) = 81)

\* the third training run has failed and the driver has stopped there
C15_Witness ==
  /\ pc = "driver_raised"
  /\ Len(driver_launched) = 3
  /\ driver_launched[3] = <<100, 100, 100, 2000>>
  /\ driver_exits = <<0, 0, 1>>
  /\ driver_alive = {}

\* ----------------------------------------------------------------- C16
\* C16: with --grid_search, with or without --run_name, main ends having
\* made one training run for each of the 81 combinations in product order,
\* each on its own copy carrying that combination's weights and under a run
\* name no other run has, with env_cfg, agent_cfg and (between iterations)
\* args_cli.run_name as they were at the start.
C16_EveryCombinationTrained ==
  /\ pc \in {"grid_done", "grid_raised"} => Len(grid_runs) = 81
  /\ \A k \in 1 .. Len(grid_runs) :
       /\ grid_runs[k].reward_state_weights = all_combos[k]
       /\ \A j \in 1 .. (k - 1) : grid_runs[j].run_name # grid_runs[k].run_name
  /\ grid_env_cfg = HydraEnvCfg /\ grid_agent_cfg = HydraAgentCfg
  /\ pc \in {"grid_loop", "grid_done"} => grid_run_name = grid_argv_run_name

\* ----------------------------------------------------------------- C17
\* C17: play_grid.main appends one row for each entry whose name starts
\* with "acrobot_grid" and ends with "_train", in sorted name order, and
\* none for any other: NO_CHECKPOINT, with no subprocess run, when the
\* checkpoint file is missing; the token of the first TIME_TO_GOAL=<token>
\* of the stdout when there is one; an ERROR entry when subprocess.run
\* fails or the stdout has no such line.  No entry stops the loop, and the
\* CSV holds the header and one row for each matching entry.
C17_OneRowPerExperiment ==
  LET visited == DOMAIN play_entries \ {play_todo[k] : k \in 1 .. Len(play_todo)}
      matching == {n \in visited : play_entries[n].head = "acrobot_grid"
                                     /\ play_entries[n].tail = "_train"}
      rows == 2 .. Len(play_results)
  IN /\ Len(play_results) = 1 + Cardinality(matching)
     /\ {play_results[r][1] : r \in rows} = matching
     /\ \A r, q \in rows : r < q => play_results[r][1] < play_results[q][1]
     /\ \A r \in rows :
          LET e == play_entries[play_results[r][1]]
              lines == {k \in 1 .. Len(e.stdout) :
                          e.stdout[k].time_to_goal /\ e.stdout[k].token # ""}
          IN /\ ~e.checkpoint =>
                  (play_results[r][2] = "NO_CHECKPOINT" /\ play_results[r][1] \notin play_launched)
             /\ (e.checkpoint /\ e.raises) => play_results[r][2] = "ERROR: exception"
             /\ (e.checkpoint /\ ~e.raises /\ lines = {}) => play_results[r][2] = "ERROR: see logs"
             /\ (e.checkpoint /\ ~e.raises /\ lines # {}) =>
                  \E k \in lines : /\ \A o \in lines : k <= o
                                    /\ play_results[r][2] = e.stdout[k].token
     /\ pc = "play_done" =>
          (play_todo = <<>> /\ play_csv = play_results
             /\ play_csv[1] = <<"Model Directory", "Time to Goal (s)">>)

\* three experiment folders: no checkpoint, a subprocess that could not be
\* run, and an evaluation that printed TIME_TO_GOAL=FAIL, all in the CSV
C17_Witness ==
  /\ pc = "play_done"
  /\ play_csv = << <<"Model Directory", "Time to Goal (s)">>, <<1, "NO_CHECKPOINT">>,
                   <<2, "ERROR: exception">>, <<3, "FAIL">> >>
  /\ play_launched = {2, 3}

\* ----------------------------------------------------------------- C18
\* C18: the evaluation loop of test.main takes at most max_steps steps and
\* stops at the first step on which the environment reports done, the
\* observation is within success_threshold of the goal, or step_count has
\* reached max_steps; then exactly one result line is printed: the time
\* dt * step_count if and only if the goal test succeeded on a step where
\* the environment did not report done, TIME_TO_GOAL=FAIL in every other case.
C18_LoopEndsAndPrintsOnce ==
  /\ eval_step_count <= eval_max_steps
  /\ pc = "eval_loop" =>
       /\ eval_printed = <<>>
       /\ eval_step_count > 0 =>
            (~eval_last.done /\ ~eval_last.within /\ eval_step_count < eval_max_steps)
  /\ pc \in {"eval_print", "eval_done"} =>
       /\ eval_step_count >= 1
       /\ eval_last.done \/ eval_last.within \/ eval_step_count >= eval_max_steps
  /\ pc = "eval_print" => eval_printed = <<>>
  /\ pc = "eval_done" =>
       /\ Len(eval_printed) = 1
       /\ (eval_last.within /\ ~eval_last.done) =>
            eval_printed[1] = <<"TIME_TO_GOAL=", (eval_step_count * 10000 + 60) \div 120>>
       /\ ~(eval_last.within /\ ~eval_last.done) => eval_printed[1] = <<"TIME_TO_GOAL=FAIL">>

\* the environment ended the episode on a step that was also at the goal,
\* before max_steps: FAIL is the one line printed
C18_Witness ==
  /\ pc = "eval_done"
  /\ eval_last.done /\ eval_last.within
  /\ eval_step_count > 1 /\ eval_step_count < eval_max_steps
  /\ eval_printed = << <<"TIME_TO_GOAL=FAIL">> >>

====
